---- MODULE Spec2Model ----
(***************************************************************************)
(* Model of PhononBSDOSDoc.from_forces_born and PhononBSDOSDoc.get_kpath   *)
(* (src/src/atomate2/common/schemas/phonons.py).                           *)
(*                                                                         *)
(* One call of from_forces_born is a sequential run; pc is the position of *)
(* the run in the function body.  The working directory is the function    *)
(* fs from file names to file contents.  The external solver (pheasy), the *)
(* hiphive correction and the diagonalisation are not computed: a force    *)
(* constant tensor is represented by the lowest frequency it yields along  *)
(* the band path, an integer in units of 1e-5 THz, and what the solver and *)
(* hiphive produce is a nondeterministic choice.                           *)
(***************************************************************************)
EXTENDS Integers, Sequences, FiniteSets, TLC

(* ------------------------------- bounds -------------------------------- *)
\* atoms in the cell (the supercell matrix is taken as the identity)
NAtoms == 1
\* samples in displacement_data: 1..MaxSamples
MaxSamples == 3
\* displacements of the nominal phonopy scheme: 1..MaxDisp
MaxDisp == 4
\* lowest band frequencies range over -MaxDepth..0 (units of 1e-5 THz)
MaxDepth == 3
\* arguments that differ from the nearest reference call
MaxVaried == 2
\* irreducible parameters of the structure: 1..MaxParams
MaxParams == 3

(* -------------------------- program constants -------------------------- *)
\* kwargs.get("tol_imaginary_modes", 1e-5), in units of 1e-5 THz
TolImaginaryModes == 1
\* "if num_judge > 3": the threshold that selects LASSO
LassoThreshold == 3
\* "--c2 10.0": the explicit second-order cutoff of the refit
ReducedCutoff == 10

VARIABLES
  \* arguments of from_forces_born
  code, use_symmetrized_structure, cell_magnetic_moments, kpath_scheme,
  born, epsilon_static, displacement_data, store_force_constants,
  \* environment: displacements of the nominal scheme (len(phonon.displacements))
  nominal_displacements,
  \* environment: irreducible second-order parameters of the structure (what
  \* alm._get_number_of_irred_fc_elements(1) would return)
  irreducible_params,
  \* position in the function body, and where an exception left it
  pc, raised_at,
  \* local variables of from_forces_born
  primitive_matrix, set_of_forces_a, set_of_disps_m, n_shape, num_har,
  borns, epsilon, nac_params, cmds, force_constants, bs_symm_line,
  imaginary_modes, imaginary_modes_hiphive, dos, thermo,
  \* the working directory
  fs,
  \* the value returned
  doc,
  \* history of the run: refiner state and its trace, solver calls of the
  \* current fit, whether a solver call exited nonzero, tensors parsed
  rstate, trace, fit, stage_log, solver_calls, nonzero_exit, hist

inputs == <<code, use_symmetrized_structure, kpath_scheme, born, epsilon_static,
            displacement_data, store_force_constants, nominal_displacements,
            irreducible_params>>
locals == <<primitive_matrix, set_of_forces_a, set_of_disps_m, n_shape, num_har,
            borns, epsilon, nac_params, cmds, force_constants, bs_symm_line,
            imaginary_modes, imaginary_modes_hiphive, dos, thermo>>
history == <<rstate, trace, fit, stage_log, solver_calls, nonzero_exit, hist>>
vars == <<inputs, cell_magnetic_moments, pc, raised_at, locals, fs, doc, history>>
\* groups of variables an action leaves alone
data == <<set_of_forces_a, set_of_disps_m, n_shape, num_har>>
nac == <<borns, epsilon, nac_params>>
phon == <<force_constants, bs_symm_line, imaginary_modes, imaginary_modes_hiphive>>
post == <<dos, thermo>>
refiner == <<rstate, trace>>
solver == <<fit, stage_log, solver_calls, nonzero_exit>>
setup == <<inputs, cell_magnetic_moments, primitive_matrix, data, nac>>

(* ------------------------------ helpers -------------------------------- *)
\* a force-constant tensor not yet assigned
NoTensor == [set |-> FALSE, lowest |-> 0, sym |-> FALSE]
\* a band structure / DOS not yet computed
NoBands == [set |-> FALSE, min_freq |-> 0, eigenvectors |-> FALSE]
NoDos == [set |-> FALSE, lowest |-> 0]
NoThermo == [set |-> FALSE, free_energies |-> FALSE, entropies |-> FALSE,
             internal_energies |-> FALSE, heat_capacities |-> FALSE]
\* Born charges: None, or one scalar charge per atom
NoBorn == [given |-> FALSE, charges |-> <<>>]
NoNac == [set |-> FALSE, born |-> <<>>, factor |-> 0]
\* the document before from_forces_born has returned
NoDoc == [emitted |-> FALSE, phonon_bandstructure |-> NoBands, phonon_dos |-> NoDos,
          thermo |-> NoThermo, has_imaginary_modes |-> FALSE,
          force_constants |-> NoTensor, born |-> NoBorn, epsilon_static |-> "None"]

\* files of the working directory
FileNames == {"POSCAR", "SPOSCAR", "disp_matrix.pkl", "force_matrix.pkl",
              "FORCE_CONSTANTS", "FORCE_CONSTANTS_new", "phonopy.yaml",
              "phonon_band_structure.yaml", "phonon_band_structure.pdf",
              "phonon_dos.yaml", "phonon_dos.pdf"}
\* a file: kind "absent", "malformed", "ifc" (val: the tensor) or "data"
\* (val: what was written); by: who wrote it last
Absent == [kind |-> "absent", val |-> 0, by |-> "none"]
File(kind, val, by) == [kind |-> kind, val |-> val, by |-> by]
\* files this run (the pipeline, its solver processes, hiphive) has written
Written == {f \in FileNames : fs[f].by \notin {"none", "previous"}}

Lowest == (0 - MaxDepth)..0

\* get_factor: the codes with a conversion factor; any other code raises
get_factor(c) ==
  IF c \in {"forcefields", "vasp"} THEN "VaspToTHz"
  ELSE IF c = "aims" THEN "omegaToTHz"
  ELSE "ValueError"

\* what "if ... and primitive_matrix == 'auto'" (line 296) makes of the
\* comparison: a str compares as a str; np.eye(3) compared with a str is the
\* scalar False in numpy before 1.25 and an elementwise array from 1.25 on,
\* whose truth value raises ValueError
IsAuto(pm) == IF pm = "auto" THEN {"True"} ELSE {"False", "ValueError"}
\* primitive_matrix chosen from use_symmetrized_structure
PrimitiveMatrix(use) == IF use = "primitive" THEN "eye" ELSE "auto"

\* supercell.get_positions(): one coordinate per atom
RefPositions == [a \in 1..NAtoms |-> 2 * (a - 1)]
\* length of the periodic cell along the coordinate
CellLength == 2 * NAtoms + 2

\* set_of_forces_a_o - set_of_forces_a_o[-1, :, :]
SubtractLast(arr) ==
  [i \in 1..Len(arr) |-> [a \in 1..Len(arr[i]) |-> arr[i][a] - arr[Len(arr)][a]]]
\* arr[:-1, :, :]
DropLast(arr) == SubSeq(arr, 1, Len(arr) - 1)
\* np.round(set_of_disps - supercell.get_positions(), decimals=16): the
\* coordinates of the model are integers, which rounding leaves alone
MinusReference(pos) ==
  [i \in 1..Len(pos) |-> [a \in 1..Len(pos[i]) |-> pos[i][a] - RefPositions[a]]]

\* the branch of the accumulator: "if f_disp_n1 < 1"
UsesDatasetAsIs(f_disp_n1) == f_disp_n1 < 1
AccumulateForces(f_disp_n1, forces) ==
  IF UsesDatasetAsIs(f_disp_n1) THEN forces
  ELSE DropLast(SubtractLast(forces))
AccumulateDisps(f_disp_n1, pos) ==
  IF UsesDatasetAsIs(f_disp_n1) THEN pos
  ELSE DropLast(MinusReference(pos))

\* the static dielectric tensor passed on although no correction is set up
KeepsEpsilon(eps) == eps
\* "epsilon = None" of the else branch (line 445)
WithoutBorn(eps) == "None"

\* the sample count taken from the nominal displacement scheme
NominalCount(n, nominal) == nominal
\* "num_har = n_shape" (line 416)
NumHar(n, nominal) == n

\* the comparison of line 422 with the count left unchecked
BornCountIgnored(natoms, b) == TRUE
\* "if len(structure) == len(born)"
BornCountAgrees(natoms, b) == natoms = Len(b.charges)
\* np.all(np.isclose(borns, 0.0))
AllZero(charges) == \A a \in 1..Len(charges) : charges[a] = 0

\* the four pheasy command lines of one fit; c2 is the explicit second-order
\* cutoff (0: none given), ndata the sample count passed (0: not passed)
PheasyCommands(ndata, num_judge, c2) ==
  << [flag |-> "-s", c2 |-> c2, ndata |-> 0, lasso |-> FALSE],
     [flag |-> "-c", c2 |-> c2, ndata |-> 0, lasso |-> FALSE],
     [flag |-> "-d", c2 |-> c2, ndata |-> ndata, lasso |-> FALSE],
     [flag |-> "-f", c2 |-> c2, ndata |-> ndata, lasso |-> num_judge > LassoThreshold] >>
\* the calls with the fit issued before the dataset stage
CallOrderSwapped == <<1, 2, 4, 3>>
\* the order of the subprocess.call lines
CallOrder == <<1, 2, 3, 4>>

\* parse_FORCE_CONSTANTS on a well-formed file
Parse(file) == [set |-> TRUE, lowest |-> file.val, sym |-> FALSE]
\* phonon.symmetrize_force_constants()
Symmetrize(fc) == [fc EXCEPT !.sym = TRUE]
\* the refit without the assignment of line 593
KeepsOldTensor(old, parsed) == old
\* force constants held by phonon after the refit: the tensor just parsed
RefitTensor(old, parsed) == Symmetrize(parsed)

\* run_band_structure + get_ph_bs_symm_line
BandStructure(fc, eigvecs) ==
  [set |-> TRUE, min_freq |-> fc.lowest, eigenvectors |-> eigvecs]
\* PhononBandStructureSymmLine.has_imaginary_freq(tol)
has_imaginary_freq(bs, tol) == bs.min_freq + tol < 0

\* get_kpath: which generator serves the scheme; any other name raises
get_kpath(scheme) ==
  IF scheme \in {"setyawan_curtarolo", "latimer_munro", "hinuma"} THEN "HighSymmKpath"
  ELSE IF scheme = "seekpath" THEN "KPathSeek"
  ELSE "ValueError"

(* ------------------------------- inputs -------------------------------- *)
Codes == {"forcefields", "vasp", "abinit"}
SymmetrizedChoices == {"primitive", "conventional"}
MagneticMoments == {"none", "zero", "nonzero"}
KpathSchemes == {"setyawan_curtarolo", "latimer_munro", "hinuma", "seekpath", "linear"}
\* Born charges: None, all zero, all nonzero, or one charge too many
BornInputs == {NoBorn,
               [given |-> TRUE, charges |-> [a \in 1..NAtoms |-> 0]],
               [given |-> TRUE, charges |-> [a \in 1..NAtoms |-> 1]],
               [given |-> TRUE, charges |-> [a \in 1..(NAtoms + 1) |-> 1]]}
EpsilonInputs == {"None", "eps"}
\* FORCE_CONSTANTS before the run: absent, or left by an earlier run
Leftovers == {Absent, File("ifc", 0, "previous"), File("ifc", 0 - MaxDepth, "previous")}

\* displacement_data with n samples: sample i carries force i on every atom and
\* is displaced by one unit; with tail = 0 the last sample is undisplaced; with
\* wrap = 1 the first atom of the first sample moved one unit backwards across
\* the cell boundary and its coordinate is stored inside the cell
Dataset(n, tail, wrap) ==
  [forces |-> [i \in 1..n |-> [a \in 1..NAtoms |-> i]],
   displaced_structures |->
     [i \in 1..n |-> [a \in 1..NAtoms |->
        IF wrap = 1 /\ i = 1 /\ a = 1
        THEN (RefPositions[a] - 1) % CellLength
        ELSE RefPositions[a] + (IF i = n /\ tail = 0 THEN 0 ELSE 1)]]]

\* the reference call: a force-field run without Born charges whose dataset
\* carries one undisplaced sample more than the nominal scheme
BaseConfig ==
  [code |-> "forcefields", use |-> "conventional", mag |-> "none",
   kpath |-> "seekpath", born |-> NoBorn, eps |-> "None", n |-> 3, tail |-> 0,
   wrap |-> 0, store |-> FALSE, disp |-> 2, params |-> 1, leftover |-> Absent]
ConfigSpace ==
  [code : Codes, use : SymmetrizedChoices, mag : MagneticMoments,
   kpath : KpathSchemes, born : BornInputs, eps : EpsilonInputs,
   n : 1..MaxSamples, tail : {0, 1}, wrap : {0, 1}, store : BOOLEAN,
   disp : 1..MaxDisp, params : 1..MaxParams, leftover : Leftovers]
\* the second reference call: a VASP run with nonzero Born charges and the
\* static dielectric tensor, which takes the branch of lines 436-441
NacConfig ==
  [BaseConfig EXCEPT !.code = "vasp",
                     !.born = [given |-> TRUE, charges |-> [a \in 1..NAtoms |-> 1]],
                     !.eps = "eps"]
References == {BaseConfig, NacConfig}
Varied(c, b) == Cardinality({k \in DOMAIN b : c[k] # b[k]})
Configs == {c \in ConfigSpace : \E b \in References : Varied(c, b) <= MaxVaried}

Init ==
  \E c \in Configs :
    /\ code = c.code
    /\ use_symmetrized_structure = c.use
    /\ cell_magnetic_moments = c.mag
    /\ kpath_scheme = c.kpath
    /\ born = c.born
    /\ epsilon_static = c.eps
    /\ displacement_data = Dataset(c.n, c.tail, c.wrap)
    /\ store_force_constants = c.store
    /\ nominal_displacements = c.disp
    /\ irreducible_params = c.params
    /\ fs = [f \in FileNames |-> IF f = "FORCE_CONSTANTS" THEN c.leftover ELSE Absent]
    /\ pc = "get_factor"
    /\ raised_at = "none"
    /\ primitive_matrix = "unset"
    /\ set_of_forces_a = <<>>
    /\ set_of_disps_m = <<>>
    /\ n_shape = 0
    /\ num_har = 0
    /\ borns = NoBorn
    /\ epsilon = "None"
    /\ nac_params = NoNac
    /\ cmds = <<>>
    /\ force_constants = NoTensor
    /\ bs_symm_line = NoBands
    /\ imaginary_modes = FALSE
    /\ imaginary_modes_hiphive = FALSE
    /\ dos = NoDos
    /\ thermo = NoThermo
    /\ doc = NoDoc
    /\ rstate = "Harmonic"
    /\ trace = <<"Harmonic">>
    /\ fit = "none"
    /\ stage_log = <<>>
    /\ solver_calls = 0
    /\ nonzero_exit = [f \in {"primary", "refit"} |-> FALSE]
    /\ hist = [primary |-> NoTensor, primary_bands |-> NoBands, primary_from |-> "none",
               refit |-> NoTensor, reads |-> {}, magnetic_moments |-> c.mag]

(* ------------------------------ actions -------------------------------- *)
\* an exception leaves from_forces_born
Raise(where) == pc' = "raised" /\ raised_at' = where
Goto(label) == pc' = label /\ UNCHANGED raised_at
\* the refiner moves to state s
Enter(s) == rstate' = s /\ trace' = Append(trace, s)

\* line 284
GetFactor ==
  /\ pc = "get_factor"
  /\ IF get_factor(code) = "ValueError" THEN Raise("get_factor")
     ELSE Goto("magnetic_moments")
  /\ UNCHANGED <<inputs, cell_magnetic_moments, locals, fs, doc, history>>

\* lines 288-302.  primitive_matrix == "auto" is evaluated only when the cell
\* has magnetic moments ("and" short-circuits)
CheckMagneticMoments ==
  /\ pc = "magnetic_moments"
  /\ primitive_matrix' = PrimitiveMatrix(use_symmetrized_structure)
  /\ IF cell_magnetic_moments # "none"
     THEN \E t \in IsAuto(PrimitiveMatrix(use_symmetrized_structure)) :
            IF t = "ValueError"
            THEN Raise("magnetic_moments") /\ UNCHANGED cell_magnetic_moments
            ELSE IF t = "True"
            THEN IF cell_magnetic_moments = "nonzero"
                 THEN Raise("magnetic_moments") /\ UNCHANGED cell_magnetic_moments
                 ELSE Goto("write_structures") /\ cell_magnetic_moments' = "none"
            ELSE Goto("write_structures") /\ UNCHANGED cell_magnetic_moments
     ELSE Goto("write_structures") /\ UNCHANGED cell_magnetic_moments
  /\ UNCHANGED <<inputs, set_of_forces_a, set_of_disps_m, n_shape, num_har, borns,
                 epsilon, nac_params, cmds, force_constants, bs_symm_line,
                 imaginary_modes, imaginary_modes_hiphive, dos, thermo, fs, doc,
                 history>>

\* lines 304-319: Phonopy(...), write_vasp("POSCAR"), write_vasp("SPOSCAR")
WriteStructures ==
  /\ pc = "write_structures"
  /\ fs' = [fs EXCEPT !["POSCAR"] = File("data", NAtoms, "pipeline"),
                      !["SPOSCAR"] = File("data", NAtoms, "pipeline")]
  /\ Goto("accumulate")
  /\ UNCHANGED <<inputs, cell_magnetic_moments, locals, doc, history>>

\* lines 321-358: the displacement/force dataset
Accumulate ==
  /\ pc = "accumulate"
  /\ set_of_forces_a' = AccumulateForces(nominal_displacements, displacement_data.forces)
  /\ set_of_disps_m' =
       AccumulateDisps(nominal_displacements, displacement_data.displaced_structures)
  /\ n_shape' = Len(set_of_disps_m')
  /\ Goto("dump")
  /\ UNCHANGED <<inputs, cell_magnetic_moments, primitive_matrix, num_har, borns,
                 epsilon, nac_params, cmds, force_constants, bs_symm_line,
                 imaginary_modes, imaginary_modes_hiphive, dos, thermo, fs, doc,
                 history>>

\* lines 362-416: pickle.dump of both arrays; num_har = n_shape
DumpDataset ==
  /\ pc = "dump"
  /\ fs' = [fs EXCEPT
       !["disp_matrix.pkl"] = File("data", Len(set_of_disps_m), "pipeline"),
       !["force_matrix.pkl"] = File("data", Len(set_of_forces_a), "pipeline")]
  /\ num_har' = NumHar(n_shape, nominal_displacements)
  /\ Goto("born")
  /\ UNCHANGED <<inputs, cell_magnetic_moments, primitive_matrix, set_of_forces_a,
                 set_of_disps_m, n_shape, borns, epsilon, nac_params, cmds,
                 force_constants, bs_symm_line, imaginary_modes,
                 imaginary_modes_hiphive, dos, thermo, doc, history>>

\* lines 421-445: Born charges and the non-analytic correction.  The charges
\* of the model are uniform over the atoms, which symmetrize_borns_and_epsilon
\* leaves as they are.
CheckBorn ==
  /\ pc = "born"
  /\ IF born.given /\ epsilon_static # "None"
     THEN IF BornCountAgrees(NAtoms, born)
          THEN /\ borns' = born
               /\ epsilon' = epsilon_static
               /\ nac_params' =
                    IF code = "vasp" /\ ~AllZero(born.charges)
                    THEN [set |-> TRUE, born |-> born.charges, factor |-> 14]
                    ELSE nac_params
               /\ Goto("build_commands")
          ELSE /\ Raise("born")
               /\ UNCHANGED <<borns, epsilon, nac_params>>
     ELSE /\ borns' = NoBorn
          /\ epsilon' = WithoutBorn(epsilon_static)
          /\ UNCHANGED nac_params
          /\ Goto("build_commands")
  /\ UNCHANGED <<inputs, cell_magnetic_moments, primitive_matrix, set_of_forces_a,
                 set_of_disps_m, n_shape, num_har, cmds, force_constants,
                 bs_symm_line, imaginary_modes, imaginary_modes_hiphive, dos,
                 thermo, fs, doc, history>>

\* what one pheasy process may leave in FORCE_CONSTANTS: only the fit stage
\* (-f --full_ifc) writes it, and it may write a tensor, a malformed file, or
\* nothing
SolverOutputs(cmd, f) ==
  IF cmd.flag = "-f"
  THEN {Absent, File("malformed", 0, f)} \cup {File("ifc", v, f) : v \in Lowest}
  ELSE {Absent}

\* one subprocess.call(pheasy_cmd, shell=True) of fit f; the exit status is
\* returned by the call and dropped
RunPheasy(f, next) ==
  /\ Len(stage_log) < Len(CallOrder)
  /\ LET cmd == cmds[CallOrder[Len(stage_log) + 1]] IN
     \E exit \in {0, 1}, out \in SolverOutputs(cmd, f) :
       /\ fs' = IF out = Absent THEN fs ELSE [fs EXCEPT !["FORCE_CONSTANTS"] = out]
       /\ stage_log' = Append(stage_log, cmd.flag)
       /\ solver_calls' = solver_calls + 1
       /\ nonzero_exit' = [nonzero_exit EXCEPT ![f] = @ \/ exit # 0]
       /\ IF Len(stage_log') = Len(CallOrder) THEN Goto(next)
          ELSE UNCHANGED <<pc, raised_at>>
  /\ UNCHANGED <<setup, cmds, phon, post, doc, refiner, fit, hist>>

\* a read of FORCE_CONSTANTS, remembered with the solver stages run before it
ReadEvent(at) == [at |-> at, stages |-> stage_log, by |-> fs["FORCE_CONSTANTS"].by]

\* lines 458-470: the command lines of the primary fit
BuildCommands ==
  /\ pc = "build_commands"
  /\ cmds' = PheasyCommands(num_har, nominal_displacements, 0)
  /\ fit' = "primary"
  /\ stage_log' = <<>>
  /\ Goto("pheasy")
  /\ UNCHANGED <<setup, phon, post, fs, doc, refiner, solver_calls, nonzero_exit, hist>>

\* lines 474-477
PrimaryFitCall == pc = "pheasy" /\ RunPheasy("primary", "parse")

\* lines 485-487: parse_FORCE_CONSTANTS raises on a missing or malformed file
ParseForceConstants ==
  /\ pc = "parse"
  /\ LET file == fs["FORCE_CONSTANTS"] IN
     IF file.kind # "ifc"
     THEN Raise("parse") /\ UNCHANGED <<force_constants, hist>>
     ELSE /\ force_constants' = Symmetrize(Parse(file))
          /\ hist' = [hist EXCEPT !.primary = force_constants',
                                  !.primary_from = file.by,
                                  !.reads = @ \cup {ReadEvent("parse")}]
          /\ Goto("save")
  /\ UNCHANGED <<setup, cmds, bs_symm_line, imaginary_modes, imaginary_modes_hiphive,
                 post, fs, doc, refiner, solver>>

\* line 490: phonon.save("phonopy.yaml")
SavePhonopyYaml ==
  /\ pc = "save"
  /\ fs' = [fs EXCEPT !["phonopy.yaml"] = File("data", force_constants.lowest, "pipeline")]
  /\ Goto("kpath")
  /\ UNCHANGED <<setup, cmds, phon, post, doc, history>>

\* lines 493-497: PhononBSDOSDoc.get_kpath
ResolveKpath ==
  /\ pc = "kpath"
  /\ IF get_kpath(kpath_scheme) = "ValueError" THEN Raise("get_kpath") ELSE Goto("bands")
  /\ UNCHANGED <<setup, cmds, phon, post, fs, doc, history>>

\* lines 499-527: band structure of the primary fit
RunBandStructure ==
  /\ pc = "bands"
  /\ bs_symm_line' = BandStructure(force_constants, FALSE)
  /\ fs' = [fs EXCEPT
       !["phonon_band_structure.yaml"] = File("data", bs_symm_line'.min_freq, "pipeline"),
       !["phonon_band_structure.pdf"] = File("data", bs_symm_line'.min_freq, "pipeline")]
  /\ imaginary_modes' = has_imaginary_freq(bs_symm_line', TolImaginaryModes)
  /\ hist' = [hist EXCEPT !.primary_bands = bs_symm_line']
  /\ Goto("if_imaginary")
  /\ UNCHANGED <<setup, cmds, force_constants, imaginary_modes_hiphive, post, doc,
                 refiner, solver>>

\* lines 530-550: hiphive reads FORCE_CONSTANTS, enforces the rotational sum
\* rules and writes FORCE_CONSTANTS_new, which becomes phonon.force_constants
RotationalSumRules ==
  /\ pc = "if_imaginary"
  /\ imaginary_modes
  /\ \E v \in Lowest :
       /\ fs' = [fs EXCEPT !["FORCE_CONSTANTS_new"] = File("ifc", v, "hiphive")]
       /\ force_constants' = Symmetrize(Parse(fs'["FORCE_CONSTANTS_new"]))
  /\ hist' = [hist EXCEPT !.reads = @ \cup {ReadEvent("hiphive")}]
  /\ Enter("ImaginaryDetected")
  /\ Goto("hiphive_bands")
  /\ UNCHANGED <<setup, cmds, bs_symm_line, imaginary_modes, imaginary_modes_hiphive,
                 post, doc, solver>>

\* lines 552-564: band structure of the corrected tensor
HiphiveBands ==
  /\ pc = "hiphive_bands"
  /\ bs_symm_line' = BandStructure(force_constants, TRUE)
  /\ fs' = [fs EXCEPT
       !["phonon_band_structure.yaml"] = File("data", bs_symm_line'.min_freq, "pipeline"),
       !["phonon_band_structure.pdf"] = File("data", bs_symm_line'.min_freq, "pipeline")]
  /\ imaginary_modes_hiphive' = has_imaginary_freq(bs_symm_line', TolImaginaryModes)
  /\ Goto("if_hiphive")
  /\ UNCHANGED <<setup, cmds, force_constants, imaginary_modes, post, doc, history>>

\* lines 566-568
NoImaginaryModes ==
  /\ pc = "if_imaginary"
  /\ ~imaginary_modes
  /\ imaginary_modes_hiphive' = FALSE
  /\ imaginary_modes' = FALSE
  /\ Goto("if_hiphive")
  /\ UNCHANGED <<setup, cmds, force_constants, bs_symm_line, post, fs, doc, history>>

\* lines 570-583: the command lines of the reduced-cutoff refit
BuildRefitCommands ==
  /\ pc = "if_hiphive"
  /\ imaginary_modes_hiphive
  /\ cmds' = PheasyCommands(num_har, nominal_displacements, ReducedCutoff)
  /\ fit' = "refit"
  /\ stage_log' = <<>>
  /\ Enter("Refining")
  /\ Goto("pheasy_refit")
  /\ UNCHANGED <<setup, phon, post, fs, doc, solver_calls, nonzero_exit, hist>>

\* lines 632-633
SkipRefit ==
  /\ pc = "if_hiphive"
  /\ ~imaginary_modes_hiphive
  /\ IF rstate = "ImaginaryDetected" THEN Enter("Converged") ELSE UNCHANGED refiner
  /\ Goto("dos")
  /\ UNCHANGED <<setup, cmds, phon, post, fs, doc, solver, hist>>

\* lines 587-590
RefitCall == pc = "pheasy_refit" /\ RunPheasy("refit", "refit_parse")

\* lines 592-594
RefitParse ==
  /\ pc = "refit_parse"
  /\ LET file == fs["FORCE_CONSTANTS"] IN
     IF file.kind # "ifc"
     THEN Raise("refit_parse") /\ UNCHANGED <<force_constants, hist>>
     ELSE /\ force_constants' = RefitTensor(force_constants, Parse(file))
          /\ hist' = [hist EXCEPT !.refit = Symmetrize(Parse(file)),
                                  !.reads = @ \cup {ReadEvent("refit_parse")}]
          /\ Goto("refit_save")
  /\ UNCHANGED <<setup, cmds, bs_symm_line, imaginary_modes, imaginary_modes_hiphive,
                 post, fs, doc, refiner, solver>>

\* line 600
RefitSave ==
  /\ pc = "refit_save"
  /\ fs' = [fs EXCEPT !["phonopy.yaml"] = File("data", force_constants.lowest, "pipeline")]
  /\ Goto("refit_kpath")
  /\ UNCHANGED <<setup, cmds, phon, post, doc, history>>

\* lines 603-607
RefitResolveKpath ==
  /\ pc = "refit_kpath"
  /\ IF get_kpath(kpath_scheme) = "ValueError" THEN Raise("refit_get_kpath")
     ELSE Goto("refit_bands")
  /\ UNCHANGED <<setup, cmds, phon, post, fs, doc, history>>

\* lines 609-631: band structure of the refit; imaginary_modes is reassigned
RefitBands ==
  /\ pc = "refit_bands"
  /\ bs_symm_line' = BandStructure(force_constants, TRUE)
  /\ fs' = [fs EXCEPT
       !["phonon_band_structure.yaml"] = File("data", bs_symm_line'.min_freq, "pipeline"),
       !["phonon_band_structure.pdf"] = File("data", bs_symm_line'.min_freq, "pipeline")]
  /\ imaginary_modes' = has_imaginary_freq(bs_symm_line', TolImaginaryModes)
  /\ Enter(IF imaginary_modes' THEN "Stuck" ELSE "Converged")
  /\ Goto("dos")
  /\ UNCHANGED <<setup, cmds, force_constants, imaginary_modes_hiphive, post, doc,
                 solver, hist>>

\* lines 636-658: mesh, total DOS, phonon_dos.yaml
RunDos ==
  /\ pc = "dos"
  /\ dos' = [set |-> TRUE, lowest |-> force_constants.lowest]
  /\ fs' = [fs EXCEPT !["phonon_dos.yaml"] = File("data", dos'.lowest, "pipeline"),
                      !["phonon_dos.pdf"] = File("data", dos'.lowest, "pipeline")]
  /\ Goto("thermo")
  /\ UNCHANGED <<setup, cmds, phon, thermo, doc, history>>

\* the arrays with the list of heat capacities (lines 684-687) left out
ArraysWithoutHeatCapacities ==
  [set |-> TRUE, free_energies |-> TRUE, entropies |-> TRUE,
   internal_energies |-> TRUE, heat_capacities |-> FALSE]
\* free_energies, entropies, internal_energies, heat_capacities: one list
\* each over temperature_range
ThermodynamicArrays ==
  [set |-> TRUE, free_energies |-> TRUE, entropies |-> TRUE,
   internal_energies |-> TRUE, heat_capacities |-> TRUE]

\* lines 660-687: the four thermodynamic arrays over the temperature grid
Thermodynamics ==
  /\ pc = "thermo"
  /\ thermo' = ThermodynamicArrays
  /\ Goto("return")
  /\ UNCHANGED <<setup, cmds, phon, dos, fs, doc, history>>

\* lines 724-780: cls.from_structure(...)
Return ==
  /\ pc = "return"
  /\ doc' = [emitted |-> TRUE,
             phonon_bandstructure |-> bs_symm_line,
             phonon_dos |-> dos,
             thermo |-> thermo,
             has_imaginary_modes |-> imaginary_modes,
             force_constants |->
               IF store_force_constants THEN force_constants ELSE NoTensor,
             born |-> borns,
             epsilon_static |-> epsilon]
  /\ Goto("done")
  /\ UNCHANGED <<setup, cmds, phon, post, fs, history>>

Next ==
  \/ GetFactor \/ CheckMagneticMoments \/ WriteStructures \/ Accumulate
  \/ DumpDataset \/ CheckBorn \/ BuildCommands \/ PrimaryFitCall
  \/ ParseForceConstants \/ SavePhonopyYaml \/ ResolveKpath \/ RunBandStructure
  \/ RotationalSumRules \/ HiphiveBands \/ NoImaginaryModes
  \/ BuildRefitCommands \/ SkipRefit \/ RefitCall \/ RefitParse \/ RefitSave
  \/ RefitResolveKpath \/ RefitBands \/ RunDos \/ Thermodynamics \/ Return

Spec == Init /\ [][Next]_vars

\* the interpreter goes on to the next statement while there is one
FairSpec == Spec /\ WF_vars(Next)

(* ------------------------------- claims -------------------------------- *)
Ended == pc \in {"done", "raised"}
TerminalStates == {"Converged", "Stuck"}
Occurrences(seq, x) == Cardinality({i \in 1..Len(seq) : seq[i] = x})
\* the accumulator (lines 321-358) has run
Accumulated ==
  /\ pc \notin {"get_factor", "magnetic_moments", "write_structures", "accumulate"}
  /\ raised_at \notin {"get_factor", "magnetic_moments"}
\* the run has gone through the Born-charge check (lines 421-445)
BornChecked ==
  /\ Accumulated
  /\ pc \notin {"dump", "born"}
\* all four processes of the refit have returned
RefitRan == fit = "refit" /\ Len(stage_log) = Len(CallOrder)
\* the refit failed as a solver: a nonzero exit, or no well-formed
\* FORCE_CONSTANTS of its own
RefitFailed ==
  /\ RefitRan
  /\ \/ nonzero_exit["refit"]
     \/ fs["FORCE_CONSTANTS"].kind # "ifc"
     \/ fs["FORCE_CONSTANTS"].by # "refit"

\* C1: the refinement makes each of its two corrective passes at most once,
\* and a run that entered the refinement ends with the refiner in Converged or
\* Stuck.
C1_RefinementEndsTerminal ==
  /\ Occurrences(trace, "ImaginaryDetected") <= 1
  /\ Occurrences(trace, "Refining") <= 1
  /\ (Ended /\ rstate # "Harmonic") => rstate \in TerminalStates

\* C2: the refiner states visited by a run form one of the four traces; the
\* correction runs iff the primary bands are imaginary, and the terminal state
\* is Converged iff the last band structure computed is stable.
C2_RefinerTraces ==
  Ended =>
    /\ trace \in {<<"Harmonic">>,
                  <<"Harmonic", "ImaginaryDetected", "Converged">>,
                  <<"Harmonic", "ImaginaryDetected", "Refining", "Converged">>,
                  <<"Harmonic", "ImaginaryDetected", "Refining", "Stuck">>}
    /\ (Len(trace) > 1) <=> has_imaginary_freq(hist.primary_bands, TolImaginaryModes)
    /\ rstate = "Converged" => ~has_imaginary_freq(bs_symm_line, TolImaginaryModes)
    /\ rstate = "Stuck" => has_imaginary_freq(bs_symm_line, TolImaginaryModes)

\* C3: in the emitted document has_imaginary_modes is true iff the band
\* structure of that document has a frequency below -tol.
C3_FlagMatchesBands ==
  doc.emitted =>
    (doc.has_imaginary_modes <=>
       has_imaginary_freq(doc.phonon_bandstructure, TolImaginaryModes))

\* C4 as claimed: a run that ends in Stuck does not raise, and its document
\* holds the band structure and tensor of the primary fit, flagged imaginary.
C4_StuckEmitsPrimaryFit ==
  /\ rstate = "Stuck" => pc # "raised"
  /\ (pc = "done" /\ rstate = "Stuck") =>
       /\ doc.emitted /\ doc.has_imaginary_modes
       /\ doc.phonon_bandstructure.min_freq = hist.primary_bands.min_freq
       /\ store_force_constants => doc.force_constants = hist.primary

\* C4 as amended: a run that ends in Stuck does not raise, and its document
\* holds the band structure computed from the tensor read back after the
\* reduced-cutoff refit (and that tensor, when force constants are stored),
\* flagged imaginary.
C4_StuckEmitsRefit ==
  /\ rstate = "Stuck" => pc # "raised"
  /\ (pc = "done" /\ rstate = "Stuck") =>
       /\ doc.emitted /\ doc.has_imaginary_modes
       /\ doc.phonon_bandstructure = BandStructure(hist.refit, TRUE)
       /\ has_imaginary_freq(doc.phonon_bandstructure, TolImaginaryModes)
       /\ store_force_constants => doc.force_constants = hist.refit
C4_Witness ==
  /\ pc = "done" /\ rstate = "Stuck" /\ store_force_constants
  /\ hist.refit # hist.primary
  /\ doc.force_constants = hist.refit

\* C5: with N samples and D nominal displacements, the last sample is
\* subtracted and dropped when N = D + 1, and the dataset is used unmodified
\* (N samples, forces untouched) otherwise.
C5_BaselineOnlyWhenOneExtra ==
  Accumulated =>
    LET forces == displacement_data.forces
        N == Len(forces)
        D == nominal_displacements
    IN IF N = D + 1
       THEN set_of_forces_a = DropLast(SubtractLast(forces)) /\ n_shape = D
       ELSE set_of_forces_a = forces /\ n_shape = N

\* C6 as claimed: whenever Born charges are supplied and their count differs
\* from the atom count, the run raises before any solver process is invoked.
C6_BornMismatchRaises ==
  (born.given /\ Len(born.charges) # NAtoms) =>
    /\ solver_calls = 0
    /\ BornChecked => (pc = "raised" /\ raised_at = "born")

\* C6 as amended: whenever Born charges and the static dielectric tensor are
\* both supplied and the count of Born charges differs from the atom count,
\* the run raises before any solver process is invoked.
C6_BornMismatchWithEpsilonRaises ==
  (born.given /\ epsilon_static # "None" /\ Len(born.charges) # NAtoms) =>
    /\ solver_calls = 0
    /\ BornChecked => (pc = "raised" /\ raised_at = "born")
C6_Witness ==
  /\ pc = "raised" /\ raised_at = "born"
  /\ born.given /\ Len(born.charges) # NAtoms /\ solver_calls = 0

\* C7: when get_kpath raises for an unknown scheme, the run has written no
\* artifact and has run no solver process.
C7_UnknownSchemeLeavesNothing ==
  (pc = "raised" /\ raised_at = "get_kpath") =>
    (Written = {} /\ solver_calls = 0)

\* C8: a document is emitted only if no process of the primary fit exited
\* nonzero and the tensor read after the primary fit was written by it.
C8_PrimaryFailureIsFatal ==
  doc.emitted => (~nonzero_exit["primary"] /\ hist.primary_from = "primary")

\* C9: when the refit fails as a solver the run does not raise, and it ends
\* with the refiner in Stuck and a document flagged imaginary.
C9_RefitFailureDegrades ==
  RefitFailed =>
    /\ pc # "raised"
    /\ pc = "done" => (rstate = "Stuck" /\ doc.emitted /\ doc.has_imaginary_modes)

\* C10: in each fit the processes run in the order symmetry enumeration (-s),
\* design matrix (-c), dataset (-d), fit (-f); FORCE_CONSTANTS is read only
\* after all four have returned, and what is read was not written by any other
\* step of the pipeline.
C10_StagesInOrderBeforeRead ==
  LET order == <<"-s", "-c", "-d", "-f">> IN
  /\ Len(stage_log) <= Len(order)
  /\ stage_log = SubSeq(order, 1, Len(stage_log))
  /\ \A r \in hist.reads :
       /\ r.stages = order
       /\ r.by \in {"previous", "primary", "refit"}
C10_Witness ==
  /\ pc = "done"
  /\ \E r \in hist.reads : r.at = "refit_parse" /\ r.by = "refit"
  /\ \E r \in hist.reads : r.at = "hiphive" /\ r.by = "primary"

\* C11: once the refiner's outcome is decided (no refinement, Converged after
\* the correction, Converged after the refit, Stuck) the run eventually
\* returns; a document is emitted only by a run that has returned with the
\* refiner in none of its intermediate states, it holds the band structure,
\* the DOS and the four thermodynamic arrays, and it is emitted once.
C11_RunReturnsOneDocument ==
  /\ [](doc.emitted =>
         /\ pc = "done"
         /\ rstate \in {"Harmonic"} \cup TerminalStates
         /\ doc.phonon_bandstructure.set /\ doc.phonon_dos.set
         /\ doc.thermo.free_energies /\ doc.thermo.entropies
         /\ doc.thermo.internal_energies /\ doc.thermo.heat_capacities)
  /\ [][doc.emitted => doc' = doc]_vars
  /\ (pc = "dos") ~> (pc = "done" /\ doc.emitted)
C11_Witness ==
  /\ pc = "done" /\ doc.emitted /\ rstate = "Converged"
  /\ trace = <<"Harmonic", "ImaginaryDetected", "Refining", "Converged">>
  /\ doc.thermo.heat_capacities

C13_NacOnlyWithBorn ==
  /\ nac_params.set => born.given
  /\ ~born.given =>
       /\ ~nac_params.set
       /\ borns = NoBorn /\ epsilon = "None"
       /\ doc.emitted => doc.born = NoBorn /\ doc.epsilon_static = "None"
C13_Witness ==
  /\ doc.emitted /\ ~born.given /\ epsilon_static = "eps"
  /\ doc.epsilon_static = "None"

\* d reduced to the periodic image nearest to zero
NearestImage(d) ==
  LET r == d % CellLength IN IF 2 * r > CellLength THEN r - CellLength ELSE r
\* C14: every displacement handed on by the accumulator is the position minus
\* the reference position reduced to the nearest periodic image.
C14_DisplacementsNearestImage ==
  Accumulated =>
    \A i \in 1..Len(set_of_disps_m) : \A a \in 1..NAtoms :
      set_of_disps_m[i][a] =
        NearestImage(displacement_data.displaced_structures[i][a] - RefPositions[a])

\* C15: the fit stage of every fit uses LASSO exactly when the sample count
\* does not exceed the irreducible parameter count.
C15_LassoBySampleCount ==
  \A k \in 1..Len(cmds) :
    cmds[k].flag = "-f" => (cmds[k].lasso <=> ~(n_shape > irreducible_params))

\* C16: the displacement array and the force array have the same number of
\* samples, both pickled files hold that number, and the --ndata of the
\* dataset and fit stages of both fits is that number.
C16_SampleCounts ==
  /\ Len(set_of_disps_m) = Len(set_of_forces_a)
  /\ fs["disp_matrix.pkl"].kind = "data" /\ fs["force_matrix.pkl"].kind = "data" =>
       /\ fs["disp_matrix.pkl"].val = Len(set_of_disps_m)
       /\ fs["force_matrix.pkl"].val = Len(set_of_disps_m)
  /\ \A k \in 1..Len(cmds) :
       cmds[k].flag \in {"-d", "-f"} => cmds[k].ndata = Len(set_of_disps_m)
C16_Witness ==
  /\ fit = "refit" /\ RefitRan
  /\ Len(set_of_disps_m) = 2 /\ nominal_displacements = 4
  /\ cmds[3].ndata = 2 /\ cmds[4].ndata = 2

\* C17: when the document is emitted, phonopy.yaml holds the tensor the
\* phonon object holds, from which the document was computed.
C17_YamlAgreesWithRecord ==
  doc.emitted =>
    /\ fs["phonopy.yaml"].kind = "data"
    /\ fs["phonopy.yaml"].val = force_constants.lowest

\* the check of the magnetic moments (lines 295-302) is behind the run
MagneticChecked ==
  /\ pc \notin {"get_factor", "magnetic_moments"}
  /\ raised_at # "get_factor"
\* C18: a cell with a nonzero moment and a choice other than "primitive" never
\* gets past the check, writes no file and calls no solver; moments that are
\* all zero are cleared and the check lets the run pass; with "primitive" the
\* moments stay as given and the check raises nothing.
C18_MagneticMoments ==
  /\ hist.magnetic_moments = "nonzero" /\ use_symmetrized_structure # "primitive" =>
       /\ pc \in {"get_factor", "magnetic_moments", "raised"}
       /\ MagneticChecked => pc = "raised" /\ raised_at = "magnetic_moments"
       /\ Written = {} /\ solver_calls = 0
  /\ hist.magnetic_moments = "zero" /\ use_symmetrized_structure # "primitive"
       /\ MagneticChecked =>
       cell_magnetic_moments = "none" /\ raised_at # "magnetic_moments"
  /\ use_symmetrized_structure = "primitive" =>
       cell_magnetic_moments = hist.magnetic_moments /\ raised_at # "magnetic_moments"

====
